---- MODULE Spec2Model ----
(***************************************************************************)
(* Model of the hierarchical inventory engine of tsukuyo                   *)
(* (internal/inventory: HierarchicalInventory).                            *)
(*                                                                         *)
(* A path expression is a sequence of one-character strings, a document    *)
(* node is a tagged record, a file of the data directory is a record with  *)
(* its content and modification time.                                      *)
(***************************************************************************)
EXTENDS Integers, Sequences, FiniteSets, TLC

(***************************************************************************)
(* Document nodes (the dynamic interface{} values of the Go code).         *)
(*   obj    map[string]interface{}        m : key -> node                  *)
(*   arr    []interface{}                 a : sequence of nodes            *)
(*   scal   string / float64 / bool       v : the value                    *)
(*   null   the nil interface (JSON null)                                  *)
(*   nilmap a nil map[string]interface{} (only hi.data can hold one)       *)
(* Every node has all four fields so that any two nodes can be compared.   *)
(***************************************************************************)
NoMap == [k \in {} |-> 0]

Obj(f) == [t |-> "obj", m |-> f, a |-> <<>>, v |-> 0]

Arr(s) == [t |-> "arr", m |-> NoMap, a |-> s, v |-> 0]

Scal(n) == [t |-> "scal", m |-> NoMap, a |-> <<>>, v |-> n]

Null == [t |-> "null", m |-> NoMap, a |-> <<>>, v |-> 0]

NilMap == [t |-> "nilmap", m |-> NoMap, a |-> <<>>, v |-> 0]

EmptyObj == Obj(NoMap)

\* A Go value of dynamic type map[string]interface{} (nil or not).
IsMap(n) == n.t \in {"obj", "nilmap"}

\* MapPut with the bug that an existing entry is not overwritten.
MapPutKeep(n, k, val) ==
    IF k \in DOMAIN n.m THEN n
    ELSE Obj([x \in (DOMAIN n.m) \cup {k} |-> IF x = k THEN val ELSE n.m[x]])

\* MapPut with the bug that the other entries of the map are dropped.
MapPutAlone(n, k, val) == Obj(k :> val)

\* d[key] = value on a map node (a nil map is handled by the callers).
MapPut(n, k, val) ==
    Obj([x \in (DOMAIN n.m) \cup {k} |-> IF x = k THEN val ELSE n.m[x]])

\* delete(d, key): a no-op when the key is absent or the map is nil.
MapDel(n, k) ==
    IF n.t = "nilmap" THEN n
    ELSE Obj([x \in (DOMAIN n.m) \ {k} |-> n.m[x]])

(***************************************************************************)
(* Query segments.                                                         *)
(***************************************************************************)
SegmentTypeKey == "Key"

SegmentTypeIndex == "Index"

SegmentTypeWildcard == "Wildcard"

KeySeg(k) == [Type |-> SegmentTypeKey, Key |-> k, Index |-> 0]

IndexSeg(i) == [Type |-> SegmentTypeIndex, Key |-> <<>>, Index |-> i]

WildcardSeg == [Type |-> SegmentTypeWildcard, Key |-> <<>>, Index |-> 0]

(***************************************************************************)
(* Error values: the messages of the code, without their arguments.        *)
(***************************************************************************)
NoErr == "ok"

ErrSetRoot == "cannot set root level"

ErrDeleteRoot == "cannot delete root level"

ErrInvalidIndex == "invalid array index"

ErrKeyNotFound == "key not found"

ErrKeyOnNonObject == "cannot access key on non-object type"

ErrOutOfBounds == "array index out of bounds"

ErrIndexOnNonArray == "cannot access index on non-array type"

ErrWildcardOnNonArray == "cannot use wildcard on non-array type"

ErrSetRootNonKey == "can only set keys at root level"

ErrSetNonObject == "cannot set key on non-object type"

ErrSetNonKey == "can only set keys, not array indices or wildcards"

ErrCreateNonKey == "can only create paths with keys"

ErrPathConflict == "path conflict: not an object"

ErrDeleteRootNonKey == "can only delete keys at root level"

ErrDeleteNonKey == "can only delete keys, not array indices"

ErrDeleteNonObject == "cannot delete key from non-object type"

ErrListNonObject == "cannot list keys on non-object type"

ErrWriteFile == "os.WriteFile failed"

ErrMkdir == "os.MkdirAll failed"

\* A run-time panic of the Go program (index out of range, nil map write).
Panic == "panic"

(***************************************************************************)
(* parseQuery                                                              *)
(***************************************************************************)
Digits == {"0", "1", "2", "3", "4", "5", "6", "7", "8", "9"}

DigitVal(c) ==
    CASE c = "0" -> 0 [] c = "1" -> 1 [] c = "2" -> 2 [] c = "3" -> 3
      [] c = "4" -> 4 [] c = "5" -> 5 [] c = "6" -> 6 [] c = "7" -> 7
      [] c = "8" -> 8 [] OTHER -> 9

RECURSIVE DecimalVal(_)
DecimalVal(ds) ==
    IF ds = <<>> THEN 0
    ELSE 10 * DecimalVal(SubSeq(ds, 1, Len(ds) - 1)) + DigitVal(ds[Len(ds)])

\* strconv.Atoi: an optional sign followed by at least one decimal digit.
Atoi(e) ==
    LET signed == e # <<>> /\ e[1] \in {"+", "-"}
        ds == IF signed THEN Tail(e) ELSE e
    IN  IF ds # <<>> /\ \A i \in 1..Len(ds) : ds[i] \in Digits
        THEN [ok |-> TRUE,
              n |-> IF signed /\ e[1] = "-" THEN 0 - DecimalVal(ds)
                    ELSE DecimalVal(ds)]
        ELSE [ok |-> FALSE, n |-> 0]

\* strings.Split(query, "."), continued from position i with token cur.
RECURSIVE SplitFrom(_, _, _)
SplitFrom(s, i, cur) ==
    IF i > Len(s) THEN <<cur>>
    ELSE IF s[i] = "." THEN <<cur>> \o SplitFrom(s, i + 1, <<>>)
    ELSE SplitFrom(s, i + 1, Append(cur, s[i]))

SplitDots(s) == SplitFrom(s, 1, <<>>)

\* The segment of a bracket expression: [*] or [n].
IndexPart(e) ==
    IF e = <<"*">> THEN [err |-> NoErr, segs |-> <<WildcardSeg>>]
    ELSE IF Atoi(e).ok THEN [err |-> NoErr, segs |-> <<IndexSeg(Atoi(e).n)>>]
    ELSE [err |-> ErrInvalidIndex, segs |-> <<>>]

\* ^\[(.+)\]$
StandaloneArrayMatch(part) ==
    Len(part) >= 3 /\ part[1] = "[" /\ part[Len(part)] = "]"

\* ^(.+?)\[(.+)\]$ : the positions at which the opening bracket can match.
KeyArrayBrackets(part) ==
    IF part # <<>> /\ part[Len(part)] = "]"
    THEN {i \in 2..(Len(part) - 2) : part[i] = "["}
    ELSE {}

\* The segments of one non-empty token of the path.
ParsePart(part) ==
    IF StandaloneArrayMatch(part)
    THEN IndexPart(SubSeq(part, 2, Len(part) - 1))
    ELSE IF KeyArrayBrackets(part) # {}
    THEN LET i == CHOOSE j \in KeyArrayBrackets(part) :
                      \A l \in KeyArrayBrackets(part) : j <= l
             ip == IndexPart(SubSeq(part, i + 1, Len(part) - 1))
         IN  IF ip.err # NoErr THEN ip
             ELSE [err |-> NoErr,
                   segs |-> <<KeySeg(SubSeq(part, 1, i - 1))>> \o ip.segs]
    ELSE [err |-> NoErr, segs |-> <<KeySeg(part)>>]

RECURSIVE ParseParts(_)
ParseParts(parts) ==
    IF parts = <<>> THEN [err |-> NoErr, segs |-> <<>>]
    ELSE IF Head(parts) = <<>> THEN ParseParts(Tail(parts))
    ELSE LET p == ParsePart(Head(parts))
         IN  IF p.err # NoErr THEN p
             ELSE LET r == ParseParts(Tail(parts))
                  IN  IF r.err # NoErr THEN r
                      ELSE [err |-> NoErr, segs |-> p.segs \o r.segs]

parseQuery(query) == ParseParts(SplitDots(query))

(***************************************************************************)
(* navigate: the read path.  A result is [err, val].                       *)
(***************************************************************************)
Fail(e) == [err |-> e, val |-> Null]

RECURSIVE navigate(_, _)
RECURSIVE navigateKey(_, _, _)
RECURSIVE navigateIndex(_, _, _)
RECURSIVE navigateWildcard(_, _)
RECURSIVE WildcardResults(_, _)

\* navigateKey with the bug that a missing key gives null and no error.
navigateKeyLenient(data, key, remaining) ==
    IF IsMap(data)
    THEN IF key \in DOMAIN data.m
         THEN navigate(data.m[key], remaining)
         ELSE [err |-> NoErr, val |-> Null]
    ELSE Fail(ErrKeyOnNonObject)

navigateKey(data, key, remaining) ==
    IF IsMap(data)
    THEN IF key \in DOMAIN data.m
         THEN navigate(data.m[key], remaining)
         ELSE Fail(ErrKeyNotFound)
    ELSE Fail(ErrKeyOnNonObject)

\* navigateIndex with the bug that a negative index counts from the end.
navigateIndexFromEnd(data, index, remaining) ==
    IF data.t = "arr"
    THEN IF index >= Len(data.a) \/ Len(data.a) = 0
         THEN Fail(ErrOutOfBounds)
         ELSE navigate(data.a[IF index < 0 THEN Len(data.a) ELSE index + 1],
                       remaining)
    ELSE Fail(ErrIndexOnNonArray)

navigateIndex(data, index, remaining) ==
    IF data.t = "arr"
    THEN IF index < 0 \/ index >= Len(data.a)
         THEN Fail(ErrOutOfBounds)
         ELSE navigate(data.a[index + 1], remaining)
    ELSE Fail(ErrIndexOnNonArray)

\* The loop of navigateWildcard: items whose navigation fails are skipped.
WildcardResults(items, remaining) ==
    IF items = <<>> THEN <<>>
    ELSE LET r == navigate(Head(items), remaining)
         IN  (IF r.err # NoErr THEN <<>> ELSE <<r.val>>)
                 \o WildcardResults(Tail(items), remaining)

\* navigateWildcard with the bug that an item whose navigation fails makes
\* the query fail.
navigateWildcardStrict(data, remaining) ==
    IF data.t = "arr"
    THEN IF \E i \in DOMAIN data.a : navigate(data.a[i], remaining).err # NoErr
         THEN Fail(ErrKeyNotFound)
         ELSE [err |-> NoErr, val |-> Arr(WildcardResults(data.a, remaining))]
    ELSE Fail(ErrWildcardOnNonArray)

navigateWildcard(data, remaining) ==
    IF data.t = "arr"
    THEN [err |-> NoErr, val |-> Arr(WildcardResults(data.a, remaining))]
    ELSE Fail(ErrWildcardOnNonArray)

navigate(data, segments) ==
    IF segments = <<>> THEN [err |-> NoErr, val |-> data]
    ELSE LET segment == Head(segments)
             remaining == Tail(segments)
         IN  CASE segment.Type = SegmentTypeKey ->
                      navigateKey(data, segment.Key, remaining)
               [] segment.Type = SegmentTypeIndex ->
                      navigateIndex(data, segment.Index, remaining)
               [] OTHER -> navigateWildcard(data, remaining)

\* QueryMem with the bug that a path of no segments is looked up as a key.
QueryMemEmptyKey(data, query) ==
    LET p == parseQuery(query)
    IN  IF p.err # NoErr THEN Fail(p.err)
        ELSE IF p.segs = <<>> THEN navigate(data, <<KeySeg(<<>>)>>)
        ELSE navigate(data, p.segs)

\* Query, once the data is loaded.
QueryMem(data, query) ==
    IF query = <<>> THEN [err |-> NoErr, val |-> data]
    ELSE LET p == parseQuery(query)
         IN  IF p.err # NoErr THEN Fail(p.err)
             ELSE navigate(data, p.segs)

\* KeyOrders with the bug that a key can be visited twice and another not
\* at all.
KeyOrdersWithRepeats(m) == [1..Cardinality(DOMAIN m) -> DOMAIN m]

\* for key := range d { keys = append(keys, key) }: the iteration order of
\* a Go map is not specified, every key is visited once.
KeyOrders(m) ==
    {ks \in [1..Cardinality(DOMAIN m) -> DOMAIN m] :
        \A i, j \in DOMAIN ks : ks[i] = ks[j] => i = j}

\* List, once the data is loaded: [err, keys], keys being the set of the
\* results the call can give.
ListMem(data, query) ==
    LET q == QueryMem(data, query)
    IN  IF q.err # NoErr THEN [err |-> q.err, keys |-> {<<>>}]
        ELSE IF IsMap(q.val) THEN [err |-> NoErr, keys |-> KeyOrders(q.val.m)]
        ELSE [err |-> ErrListNonObject, keys |-> {<<>>}]

(***************************************************************************)
(* Mutation.  Go maps are references: the parent map that navigate returns *)
(* is the map inside hi.data, so an assignment to it changes the document  *)
(* at the parent's path.  A result is [err, data].                         *)
(***************************************************************************)
\* ReplaceAt with the bug that the changed parent map becomes the document.
ReplaceAtRoot(node, segments, new) == new

\* The document with the node at a Key/Index path replaced.
RECURSIVE ReplaceAt(_, _, _)
ReplaceAt(node, segments, new) ==
    IF segments = <<>> THEN new
    ELSE LET s == Head(segments)
         IN  IF s.Type = SegmentTypeKey
             THEN MapPut(node, s.Key,
                         ReplaceAt(node.m[s.Key], Tail(segments), new))
             ELSE Arr([node.a EXCEPT ![s.Index + 1] =
                         ReplaceAt(node.a[s.Index + 1], Tail(segments), new)])

\* createFrom with the bug that the objects it makes are not stored in
\* their parent map.
createFromDetached(current, segments) == [err |-> NoErr, data |-> current]

\* createPath from the map current: objects created before a failure stay.
RECURSIVE createFrom(_, _)

\* createFrom with the bug that a missing key followed by the index 0 is
\* created as an array of one object.
createFromArrays(current, segments) ==
    IF segments = <<>> THEN [err |-> NoErr, data |-> current]
    ELSE LET segment == Head(segments)
             rest == Tail(segments)
         IN  IF segment.Type # SegmentTypeKey
             THEN [err |-> ErrCreateNonKey, data |-> current]
             ELSE IF current.t = "nilmap"
             THEN [err |-> Panic, data |-> current]
             ELSE IF /\ segment.Key \notin DOMAIN current.m
                     /\ rest # <<>>
                     /\ Head(rest) = IndexSeg(0)
             THEN LET r == createFrom(EmptyObj, Tail(rest))
                  IN  [err |-> r.err,
                       data |-> MapPut(current, segment.Key, Arr(<<r.data>>))]
             ELSE LET cur1 == IF segment.Key \in DOMAIN current.m
                              THEN current
                              ELSE MapPut(current, segment.Key, EmptyObj)
                      next == cur1.m[segment.Key]
                  IN  IF next.t # "obj"
                      THEN [err |-> ErrPathConflict, data |-> cur1]
                      ELSE LET r == createFrom(next, rest)
                           IN  [err |-> r.err,
                                data |-> MapPut(cur1, segment.Key, r.data)]

\* createFrom with the bug that an entry that is not an object is replaced
\* by a new object.
createFromOverwrite(current, segments) ==
    IF segments = <<>> THEN [err |-> NoErr, data |-> current]
    ELSE LET segment == Head(segments)
         IN  IF segment.Type # SegmentTypeKey
             THEN [err |-> ErrCreateNonKey, data |-> current]
             ELSE IF current.t = "nilmap"
             THEN [err |-> Panic, data |-> current]
             ELSE LET cur1 == IF segment.Key \in DOMAIN current.m
                                 /\ current.m[segment.Key].t = "obj"
                              THEN current
                              ELSE MapPut(current, segment.Key, EmptyObj)
                      r == createFrom(cur1.m[segment.Key], Tail(segments))
                  IN  [err |-> r.err,
                       data |-> MapPut(cur1, segment.Key, r.data)]

createFrom(current, segments) ==
    IF segments = <<>> THEN [err |-> NoErr, data |-> current]
    ELSE LET segment == Head(segments)
         IN  IF segment.Type # SegmentTypeKey
             THEN [err |-> ErrCreateNonKey, data |-> current]
             ELSE IF current.t = "nilmap"
             THEN [err |-> Panic, data |-> current]
             ELSE LET cur1 == IF segment.Key \in DOMAIN current.m
                              THEN current
                              ELSE MapPut(current, segment.Key, EmptyObj)
                      next == cur1.m[segment.Key]
                  IN  IF next.t # "obj"
                      THEN [err |-> ErrPathConflict, data |-> cur1]
                      ELSE LET r == createFrom(next, Tail(segments))
                           IN  [err |-> r.err,
                                data |-> MapPut(cur1, segment.Key, r.data)]

createPath(data, segments) == createFrom(data, segments)

\* The in-memory part of Set, from the parsed segments on.
SetMem(data, segments, value) ==
    IF Len(segments) = 0 THEN [err |-> Panic, data |-> data]
    ELSE IF Len(segments) = 1
    THEN LET segment == segments[1]
         IN  IF segment.Type # SegmentTypeKey
             THEN [err |-> ErrSetRootNonKey, data |-> data]
             ELSE IF data.t = "nilmap" THEN [err |-> Panic, data |-> data]
             ELSE [err |-> NoErr, data |-> MapPut(data, segment.Key, value)]
    ELSE LET parentSegs == SubSeq(segments, 1, Len(segments) - 1)
             finalSegment == segments[Len(segments)]
             nav == navigate(data, parentSegs)
             cp == IF nav.err # NoErr THEN createPath(data, parentSegs)
                   ELSE [err |-> NoErr, data |-> data]
             parent == navigate(cp.data, parentSegs).val
         IN  IF cp.err # NoErr THEN cp
             ELSE IF finalSegment.Type # SegmentTypeKey
             THEN [err |-> ErrSetNonKey, data |-> cp.data]
             ELSE IF ~IsMap(parent)
             THEN [err |-> ErrSetNonObject, data |-> cp.data]
             ELSE IF parent.t = "nilmap" THEN [err |-> Panic, data |-> cp.data]
             ELSE [err |-> NoErr,
                   data |-> ReplaceAt(cp.data, parentSegs,
                                      MapPut(parent, finalSegment.Key, value))]

\* DeleteMem with the bug that a parent path that does not resolve is
\* created, as Set does.
DeleteMemAutoCreate(data, segments) ==
    IF Len(segments) = 0 THEN [err |-> Panic, data |-> data]
    ELSE IF Len(segments) = 1
    THEN LET segment == segments[1]
         IN  IF segment.Type # SegmentTypeKey
             THEN [err |-> ErrDeleteRootNonKey, data |-> data]
             ELSE [err |-> NoErr, data |-> MapDel(data, segment.Key)]
    ELSE LET parentSegs == SubSeq(segments, 1, Len(segments) - 1)
             finalSegment == segments[Len(segments)]
             nav == navigate(data, parentSegs)
             cp == IF nav.err # NoErr THEN createPath(data, parentSegs)
                   ELSE [err |-> NoErr, data |-> data]
             parent == navigate(cp.data, parentSegs).val
         IN  IF cp.err # NoErr THEN cp
             ELSE IF finalSegment.Type # SegmentTypeKey
             THEN [err |-> ErrDeleteNonKey, data |-> cp.data]
             ELSE IF ~IsMap(parent)
             THEN [err |-> ErrDeleteNonObject, data |-> cp.data]
             ELSE [err |-> NoErr,
                   data |-> ReplaceAt(cp.data, parentSegs,
                                      MapDel(parent, finalSegment.Key))]

\* DeleteMem with the bug that the type of the final segment is not tested.
DeleteMemNoTypeCheck(data, segments) ==
    IF Len(segments) = 0 THEN [err |-> Panic, data |-> data]
    ELSE IF Len(segments) = 1
    THEN [err |-> NoErr, data |-> MapDel(data, segments[1].Key)]
    ELSE LET parentSegs == SubSeq(segments, 1, Len(segments) - 1)
             finalSegment == segments[Len(segments)]
             nav == navigate(data, parentSegs)
         IN  IF nav.err # NoErr THEN [err |-> nav.err, data |-> data]
             ELSE IF ~IsMap(nav.val)
             THEN [err |-> ErrDeleteNonObject, data |-> data]
             ELSE [err |-> NoErr,
                   data |-> ReplaceAt(data, parentSegs,
                                      MapDel(nav.val, finalSegment.Key))]

\* The in-memory part of Delete, from the parsed segments on.
DeleteMem(data, segments) ==
    IF Len(segments) = 0 THEN [err |-> Panic, data |-> data]
    ELSE IF Len(segments) = 1
    THEN LET segment == segments[1]
         IN  IF segment.Type # SegmentTypeKey
             THEN [err |-> ErrDeleteRootNonKey, data |-> data]
             ELSE [err |-> NoErr, data |-> MapDel(data, segment.Key)]
    ELSE LET parentSegs == SubSeq(segments, 1, Len(segments) - 1)
             finalSegment == segments[Len(segments)]
             nav == navigate(data, parentSegs)
         IN  IF nav.err # NoErr THEN [err |-> nav.err, data |-> data]
             ELSE IF finalSegment.Type # SegmentTypeKey
             THEN [err |-> ErrDeleteNonKey, data |-> data]
             ELSE IF ~IsMap(nav.val)
             THEN [err |-> ErrDeleteNonObject, data |-> data]
             ELSE [err |-> NoErr,
                   data |-> ReplaceAt(data, parentSegs,
                                      MapDel(nav.val, finalSegment.Key))]

(***************************************************************************)
(* The data directory.  A file is [present, valid, v, mtime]: valid says   *)
(* that the file can be read and decoded (JSON syntax, gob stream), v is   *)
(* the decoded content.                                                    *)
(***************************************************************************)
Absent == [present |-> FALSE, valid |-> FALSE, v |-> Null, mtime |-> 0]

File(content, t) == [present |-> TRUE, valid |-> TRUE, v |-> content, mtime |-> t]

Corrupt(t) == [present |-> TRUE, valid |-> FALSE, v |-> Null, mtime |-> t]

\* Outcomes of os.WriteFile: written; failed before truncating (the file is
\* as it was); failed after truncating (an undecodable file is left).
WriteOutcomes == {"ok", "unchanged", "truncated"}

WriteFile(f, content, outcome, now) ==
    CASE outcome = "ok" -> File(content, now)
      [] outcome = "truncated" -> Corrupt(now)
      [] OTHER -> f

\* json.MarshalIndent(hi.data): a nil map is written as null.
MarshalJSON(data) == IF data.t = "nilmap" THEN Null ELSE data

\* json.Unmarshal(content, &hi.data): null makes the map nil, an object is
\* decoded into the existing map (entries of other keys are kept), any
\* other JSON value is a type error that leaves the map as it was.
UnmarshalInto(data, f) ==
    IF ~f.valid THEN [err |-> "json", data |-> data]
    ELSE IF f.v.t = "null" THEN [err |-> NoErr, data |-> NilMap]
    ELSE IF f.v.t = "obj"
    THEN [err |-> NoErr,
          data |-> Obj([k \in (DOMAIN data.m) \cup (DOMAIN f.v.m) |->
                          IF k \in DOMAIN f.v.m THEN f.v.m[k] ELSE data.m[k]])]
    ELSE [err |-> "json", data |-> data]

\* enc.Encode(hi.data): map[string]interface{} and []interface{} are not
\* registered with gob, so a document with a nested object or array cannot
\* be encoded; strings, numbers, booleans and nil can.
GobEncodable(data) ==
    \A k \in DOMAIN data.m : data.m[k].t \in {"scal", "null"}

\* The document a gob stream of data decodes to (a nil map is sent empty).
GobImage(data) == IF data.t = "nilmap" THEN EmptyObj ELSE data

\* GobDecodeInto with the bug that a decoding error is not reported.
GobDecodeIgnoringErrors(data, f) ==
    [err |-> NoErr,
     data |-> Obj([k \in (DOMAIN data.m) \cup (DOMAIN f.v.m) |->
                     IF k \in DOMAIN f.v.m THEN f.v.m[k] ELSE data.m[k]])]

\* dec.Decode(&hi.data): decodes into the existing map.
GobDecodeInto(data, f) ==
    IF ~f.valid THEN [err |-> "gob", data |-> data]
    ELSE [err |-> NoErr,
          data |-> Obj([k \in (DOMAIN data.m) \cup (DOMAIN f.v.m) |->
                          IF k \in DOMAIN f.v.m THEN f.v.m[k] ELSE data.m[k]])]

\* After with the bug that equal times count as newer.
AfterOrEqual(t1, t2) == t1 >= t2

\* After with the bug that the comparison is reversed (Before).
AfterReversed(t1, t2) == t1 < t2

\* binaryStat.ModTime().After(jsonStat.ModTime())
After(t1, t2) == t1 > t2

\* createBinaryCache: encoding and write errors are ignored.
createBinaryCache(files, data, outcome, now) ==
    IF GobEncodable(data)
    THEN [files EXCEPT !.gob = WriteFile(@, GobImage(data), outcome, now)]
    ELSE files

\* Keys of the top-level entries that the legacy import installs.
KeyDb == <<"d", "b">>

KeyHierarchical == <<"h", "i", "e", "r", "a", "r", "c", "h", "i", "c", "a", "l">>

\* loadFromMultipleFiles with the bug that a file that cannot be read or
\* parsed ends the import.
loadFromMultipleFilesAbort(files, data) ==
    IF files.db.present /\ ~files.db.valid THEN data
    ELSE LET d1 == IF files.db.present
                   THEN MapPut(data, KeyDb, files.db.v) ELSE data
         IN  IF files.json.present /\ files.json.valid
             THEN MapPut(d1, KeyHierarchical, files.json.v) ELSE d1

\* loadFromMultipleFiles: the glob *-inventory.json matches the legacy file
\* db-inventory.json and the canonical file hierarchical-inventory.json;
\* files that cannot be read or parsed are skipped.
loadFromMultipleFiles(files, data) ==
    LET d1 == IF files.db.present /\ files.db.valid
              THEN MapPut(data, KeyDb, files.db.v) ELSE data
    IN  IF files.json.present /\ files.json.valid
        THEN MapPut(d1, KeyHierarchical, files.json.v) ELSE d1

\* loadData: [data, files, from].
loadData(files, data, outcome, now) ==
    LET useGob == files.gob.present
                  /\ (~files.json.present
                      \/ After(files.gob.mtime, files.json.mtime))
        g == GobDecodeInto(data, files.gob)
        j == UnmarshalInto(data, files.json)
        l == loadFromMultipleFiles(files, data)
    IN  IF useGob /\ g.err = NoErr
        THEN [data |-> g.data, files |-> files, from |-> "gob"]
        ELSE IF files.json.present /\ j.err = NoErr
        THEN [data |-> j.data,
              files |-> createBinaryCache(files, j.data, outcome, now),
              from |-> "json"]
        ELSE [data |-> l,
              files |-> createBinaryCache(files, l, outcome, now),
              from |-> "legacy"]

\* saveData with the bug that a failed write of the snapshot is reported.
saveDataStrictCache(files, data, jsonOutcome, gobOutcome, now, later) ==
    LET f1 == [files EXCEPT !.json =
                   WriteFile(@, MarshalJSON(data), jsonOutcome, now)]
    IN  IF jsonOutcome # "ok"
        THEN [err |-> ErrWriteFile, files |-> f1, log |-> <<"json failed">>]
        ELSE IF ~GobEncodable(data)
        THEN [err |-> "gob", files |-> f1,
              log |-> <<"json written", "gob not encodable">>]
        ELSE [err |-> IF gobOutcome = "ok" THEN NoErr ELSE ErrWriteFile,
              files |-> createBinaryCache(f1, data, gobOutcome, later),
              log |-> <<"json written",
                        IF gobOutcome = "ok" THEN "gob written"
                        ELSE "gob failed">>]

\* saveData with the bug that the snapshot is written before the result of
\* the canonical write is looked at.
saveDataCacheFirst(files, data, jsonOutcome, gobOutcome, now, later) ==
    LET f1 == [files EXCEPT !.json =
                   WriteFile(@, MarshalJSON(data), jsonOutcome, now)]
        f2 == createBinaryCache(f1, data, "ok", later)
    IN  IF jsonOutcome # "ok"
        THEN [err |-> ErrWriteFile, files |-> f2, log |-> <<"json failed">>]
        ELSE [err |-> NoErr, files |-> f2,
              log |-> <<"json written", "gob written">>]

\* saveData: [err, files, log]; log lists the writes that were made.
saveData(files, data, jsonOutcome, gobOutcome, now, later) ==
    LET f1 == [files EXCEPT !.json =
                   WriteFile(@, MarshalJSON(data), jsonOutcome, now)]
    IN  IF jsonOutcome # "ok"
        THEN [err |-> ErrWriteFile, files |-> f1, log |-> <<"json failed">>]
        ELSE IF ~GobEncodable(data)
        THEN [err |-> NoErr, files |-> f1,
              log |-> <<"json written", "gob not encodable">>]
        ELSE [err |-> NoErr,
              files |-> createBinaryCache(f1, data, gobOutcome, later),
              log |-> <<"json written",
                        IF gobOutcome = "ok" THEN "gob written"
                        ELSE "gob failed">>]

(***************************************************************************)
(* Bounds and inputs.                                                      *)
(***************************************************************************)
MaxOps == 2

MaxClock == 2

KeyA == <<"a">>

KeyB == <<"b">>

KeyC == <<"c">>

\* The path expressions the callers pass.
Paths ==
    { <<>>,
      <<".">>,
      <<"a">>,
      <<"a", ".", "b">>,
      <<"a", ".", "b", ".", "c">>,
      <<"a", "[", "0", "]">>,
      <<"[", "0", "]">>,
      <<"a", ".", "[", "*", "]">>,
      <<"a", ".", "[", "0", "]", ".", "b">>,
      <<"a", ".", "[", "*", "]", ".", "b">>,
      <<"b", ".", "a", "[", "x", "]">> }

\* The values the callers pass to Set (decoded JSON, or a string).
Values ==
    { Scal(1),
      Arr(<<Obj(KeyB :> Scal(1)), Scal(2)>>) }

\* The environment of a call: whether os.MkdirAll can fail, and how
\* os.WriteFile can end.
Reliable == [dir |-> {TRUE}, w |-> {"ok"}]

Faulty == [dir |-> BOOLEAN, w |-> WriteOutcomes]

(***************************************************************************)
(* The store: one instance at a time on the data directory.                *)
(***************************************************************************)
VARIABLES
    data,        \* hi.data
    loaded,      \* hi.loaded
    files,       \* the data directory: json, gob, db
    clock,       \* the time of the file system
    loadedFrom,  \* what loadData read: "none", "gob", "json", "legacy"
    nOps,        \* number of calls made so far
    lastOp,      \* the last call: its name, arguments and results
    lastPath,
    lastValue,
    lastErr,
    lastRes,
    lastKeys,    \* the keys a List returned, in the order it returned them
    lastSegs,    \* the segments the last call's path was parsed to
    pre,         \* hi.data when the body of the last call started
    saveLog,     \* the writes the last call's saveData made
    clean,       \* every Set/Delete of this instance returned success
    sync,        \* hi.data against the canonical file: "synced", "diverged"
                 \* after a failed write of it, "resynced" by a later save
    instance,    \* number of instances constructed on the data directory
    mu,          \* hi.mu: [writer, readers]
    pc,          \* where each goroutine is in its call
    cur,         \* the call each goroutine is making, and its result
    ncalls,      \* number of calls each goroutine has made
    loads,       \* number of times loadData has run
    crashed      \* the runtime has stopped the process (fatal error)

vars == <<data, loaded, files, clock, loadedFrom, nOps, lastOp, lastPath,
          lastValue, lastErr, lastRes, lastKeys, lastSegs, pre, saveLog,
          clean, sync, instance, mu, pc, cur, ncalls, loads, crashed>>

\* The state of the calls of one caller at a time.
seqVars == <<clock, loadedFrom, nOps, lastOp, lastPath, lastValue, lastErr,
             lastRes, lastKeys, lastSegs, pre, saveLog, clean, sync,
             instance>>

\* The state of the goroutines.
concVars == <<mu, pc, cur, ncalls, loads, crashed>>

\* The goroutines that call the store concurrently.
Procs == {1, 2}

NoCall == [op |-> "none", path |-> <<>>, value |-> Null, buf |-> Null,
           err |-> NoErr, val |-> Null]

\* No goroutine is in a call.
ConcIdle ==
    /\ mu = [writer |-> 0, readers |-> {}]
    /\ pc = [p \in Procs |-> "idle"]
    /\ cur = [p \in Procs |-> NoCall]
    /\ ncalls = [p \in Procs |-> 0]
    /\ loads = 0
    /\ crashed = FALSE

\* NewHierarchicalInventory
NewState ==
    /\ data = EmptyObj
    /\ loaded = FALSE
    /\ loadedFrom = "none"
    /\ lastOp = "New"
    /\ lastPath = <<>>
    /\ lastValue = Null
    /\ lastErr = NoErr
    /\ lastRes = Null
    /\ lastKeys = <<>>
    /\ lastSegs = <<>>
    /\ pre = EmptyObj
    /\ saveLog = <<>>
    /\ clean = TRUE
    /\ sync = "synced"
    /\ instance = 1

\* Whether ensureDataLoaded has to run the load.
NeedsLoad(l) == ~l

\* ensureDataLoaded with no concurrent caller: [err, data, files, from, loaded].
ensureDataLoaded(dirOk, outcome) ==
    IF ~NeedsLoad(loaded)
    THEN [err |-> NoErr, data |-> data, files |-> files,
          from |-> loadedFrom, loaded |-> TRUE]
    ELSE IF ~dirOk
    THEN [err |-> ErrMkdir, data |-> data, files |-> files,
          from |-> loadedFrom, loaded |-> FALSE]
    ELSE LET l == loadData(files, data, outcome, clock)
         IN  [err |-> NoErr, data |-> l.data, files |-> l.files,
              from |-> l.from, loaded |-> TRUE]

\* The choices the environment has during ensureDataLoaded: whether the
\* directory can be made, and how the write of the snapshot ends.
DirChoices(env) == IF loaded THEN {TRUE} ELSE env.dir

LoadChoices(env, dirOk) ==
    IF ensureDataLoaded(dirOk, "ok").files = files THEN {"ok"} ELSE env.w

CanCall == nOps < MaxOps /\ lastErr # Panic

\* The part of a call's effect that is common to all calls.
Called(op, query, value, e) ==
    /\ nOps' = nOps + 1
    /\ lastOp' = op
    /\ lastPath' = query
    /\ lastValue' = value
    /\ lastSegs' = parseQuery(query).segs
    /\ loaded' = e.loaded
    /\ loadedFrom' = e.from
    /\ pre' = e.data
    /\ UNCHANGED <<instance, mu, pc, cur, ncalls, loads, crashed>>

Query(query, env) ==
    /\ CanCall
    /\ \E dirOk \in DirChoices(env) : \E lo \in LoadChoices(env, dirOk) :
          LET e == ensureDataLoaded(dirOk, lo)
              r == QueryMem(e.data, query)
          IN  /\ Called("Query", query, Null, e)
              /\ data' = e.data
              /\ files' = e.files
              /\ lastErr' = IF e.err # NoErr THEN e.err ELSE r.err
              /\ lastRes' = IF e.err # NoErr THEN Null ELSE r.val
              /\ lastKeys' = <<>>
              /\ saveLog' = <<>>
              /\ UNCHANGED <<clock, clean, sync>>

List(query, env) ==
    /\ CanCall
    /\ \E dirOk \in DirChoices(env) : \E lo \in LoadChoices(env, dirOk) :
          LET e == ensureDataLoaded(dirOk, lo)
              r == ListMem(e.data, query)
          IN  /\ Called("List", query, Null, e)
              /\ data' = e.data
              /\ files' = e.files
              /\ lastErr' = IF e.err # NoErr THEN e.err ELSE r.err
              /\ lastRes' = Null
              /\ lastKeys' \in (IF e.err # NoErr THEN {<<>>} ELSE r.keys)
              /\ saveLog' = <<>>
              /\ UNCHANGED <<clock, clean, sync>>

\* The in-memory part of Set from the query string on.
SetBody(d, query, value) ==
    IF query = <<>> THEN [err |-> ErrSetRoot, data |-> d]
    ELSE LET p == parseQuery(query)
         IN  IF p.err # NoErr THEN [err |-> p.err, data |-> d]
             ELSE SetMem(d, p.segs, value)

\* The in-memory part of Delete from the query string on.
DeleteBody(d, query) ==
    IF query = <<>> THEN [err |-> ErrDeleteRoot, data |-> d]
    ELSE LET p == parseQuery(query)
         IN  IF p.err # NoErr THEN [err |-> p.err, data |-> d]
             ELSE DeleteMem(d, p.segs)

\* The common tail of Set and Delete: e is the result of ensureDataLoaded,
\* m the result of the in-memory part; saveData runs when both succeeded.
Mutated(op, query, value, e, m, env) ==
    LET saved == e.err = NoErr /\ m.err = NoErr
        cache == saved /\ GobEncodable(m.data)
    IN  \E jo \in (IF saved THEN env.w ELSE {"ok"}) :
        \E go \in (IF cache /\ jo = "ok" THEN env.w ELSE {"ok"}) :
        \E later \in (IF cache /\ jo = "ok" /\ clock < MaxClock
                      THEN {clock, clock + 1} ELSE {clock}) :
           LET s == saveData(e.files, m.data, jo, go, clock, later)
               err == IF e.err # NoErr THEN e.err
                      ELSE IF m.err # NoErr THEN m.err ELSE s.err
           IN  /\ Called(op, query, value, e)
               /\ data' = IF e.err # NoErr THEN e.data ELSE m.data
               /\ files' = IF saved THEN s.files ELSE e.files
               /\ saveLog' = IF saved THEN s.log ELSE <<>>
               /\ clock' = later
               /\ lastErr' = err
               /\ lastRes' = Null
               /\ lastKeys' = <<>>
               /\ clean' = (clean /\ err = NoErr)
               /\ sync' = IF ~saved THEN sync
                          ELSE IF s.err # NoErr THEN "diverged"
                          ELSE IF sync = "synced" THEN "synced"
                          ELSE "resynced"

Set(query, value, env) ==
    /\ CanCall
    /\ \E dirOk \in DirChoices(env) : \E lo \in LoadChoices(env, dirOk) :
          LET e == ensureDataLoaded(dirOk, lo)
          IN  Mutated("Set", query, value, e,
                      SetBody(e.data, query, value), env)

Delete(query, env) ==
    /\ CanCall
    /\ \E dirOk \in DirChoices(env) : \E lo \in LoadChoices(env, dirOk) :
          LET e == ensureDataLoaded(dirOk, lo)
          IN  Mutated("Delete", query, Null, e,
                      DeleteBody(e.data, query), env)

\* A new process: NewHierarchicalInventory on the same data directory.
NewInstance ==
    /\ lastOp # "New"
    /\ data' = EmptyObj
    /\ loaded' = FALSE
    /\ loadedFrom' = "none"
    /\ lastOp' = "New"
    /\ lastPath' = <<>>
    /\ lastValue' = Null
    /\ lastErr' = NoErr
    /\ lastRes' = Null
    /\ lastKeys' = <<>>
    /\ lastSegs' = <<>>
    /\ pre' = EmptyObj
    /\ saveLog' = <<>>
    /\ clean' = TRUE
    /\ sync' = "synced"
    /\ instance' = instance + 1
    /\ UNCHANGED <<files, clock, nOps>>
    /\ UNCHANGED concVars

\* Time passes.
Tick ==
    /\ clock < MaxClock
    /\ clock' = clock + 1
    /\ UNCHANGED <<data, loaded, files, loadedFrom, nOps, lastOp, lastPath,
                   lastValue, lastErr, lastRes, lastKeys, lastSegs, pre,
                   saveLog, clean, sync, instance>>
    /\ UNCHANGED concVars

(***************************************************************************)
(* Spec: the operations on a reliable disk, with many path expressions.    *)
(***************************************************************************)
\* The data directories the store is constructed on.
InitDirs ==
    { [json |-> Absent, gob |-> Absent, db |-> Absent],
      [json |-> File(Obj(KeyA :> Obj(KeyA :> Scal(1))), 1),
       gob |-> Absent, db |-> Absent],
      [json |-> File(Obj(KeyA :> Arr(<<Obj(KeyA :> Scal(2))>>)), 0),
       gob |-> File(Obj(KeyA :> Scal(1)), 0), db |-> Absent],
      [json |-> File(Null, 1), gob |-> Absent, db |-> Absent],
      [json |-> Absent, gob |-> Absent, db |-> File(Obj(KeyA :> Scal(2)), 0)] }

Init ==
    /\ NewState
    /\ ConcIdle
    /\ files \in InitDirs
    /\ clock = 1
    /\ nOps = 0

Next ==
    \/ \E q \in Paths : Query(q, Reliable)
    \/ \E q \in Paths : List(q, Reliable)
    \/ \E q \in Paths, v \in Values : Set(q, v, Reliable)
    \/ \E q \in Paths : Delete(q, Reliable)
    \/ NewInstance
    \/ Tick

Spec == Init /\ [][Next]_vars

(***************************************************************************)
(* IOSpec: the operations on a disk whose writes can fail, on data         *)
(* directories in any condition, with few path expressions.                *)
(***************************************************************************)
IOPaths == { <<"a">>, <<"a", ".", "b">> }

IOValues == { Scal(2) }

IOInitJson ==
    { Absent, Corrupt(1), File(Arr(<<Scal(1)>>), 1),
      File(Obj(KeyA :> Scal(1)), 0), File(Obj(KeyA :> Scal(1)), 1) }

IOInitGob ==
    { Absent, Corrupt(1),
      File(Obj(KeyB :> Scal(2)), 0), File(Obj(KeyB :> Scal(2)), 1) }

IOInitDb == { Absent, Corrupt(0), File(Scal(1), 0) }

IOInit ==
    /\ NewState
    /\ ConcIdle
    /\ files \in [json : IOInitJson, gob : IOInitGob, db : IOInitDb]
    /\ clock = 1
    /\ nOps = 0

IONext ==
    \/ \E q \in {<<"a">>} : Query(q, Faulty)
    \/ \E q \in IOPaths, v \in IOValues : Set(q, v, Faulty)
    \/ \E q \in IOPaths : Delete(q, Faulty)
    \/ NewInstance
    \/ Tick

IOSpec == IOInit /\ [][IONext]_vars

(***************************************************************************)
(* ConcSpec: goroutines calling one instance concurrently.  Each step is   *)
(* one statement of ensureDataLoaded or of the body of the operation.      *)
(***************************************************************************)
MaxCalls == 1

\* The calls the goroutines make.
ConcCalls ==
    { [op |-> "Query", path |-> <<"a">>, value |-> Null],
      [op |-> "Set", path |-> <<"a">>, value |-> Scal(1)],
      [op |-> "Set", path |-> <<"b">>, value |-> Scal(2)],
      [op |-> "Delete", path |-> <<"a">>, value |-> Null] }

ConcInitDirs ==
    { [json |-> Absent, gob |-> Absent, db |-> Absent],
      [json |-> File(Obj(KeyA :> Scal(2)), 1), gob |-> Absent, db |-> Absent] }

ConcInit ==
    /\ NewState
    /\ ConcIdle
    /\ files \in ConcInitDirs
    /\ clock = 1
    /\ nOps = 0

\* The first statement of the body of an operation.
BodyStart(op) == IF op \in {"Query", "List"} THEN "read" ELSE "mutate"

\* DoubleCheck with the bug that loaded is not tested again under the lock.
DoubleCheckMissing(l) == TRUE

\* The second test of hi.loaded, after hi.mu.Lock().
DoubleCheck(l) == ~l

Goto(p, label) == pc' = [pc EXCEPT ![p] = label]

Return(p, e, v) ==
    /\ pc' = [pc EXCEPT ![p] = "idle"]
    /\ cur' = [cur EXCEPT ![p].err = e, ![p].val = v]

\* A goroutine calls Query, Set, Delete or List.
Call(p, c) ==
    /\ ~crashed
    /\ pc[p] = "idle"
    /\ ncalls[p] < MaxCalls
    /\ ncalls' = [ncalls EXCEPT ![p] = @ + 1]
    /\ cur' = [cur EXCEPT ![p] = [NoCall EXCEPT !.op = c.op, !.path = c.path,
                                                !.value = c.value]]
    /\ Goto(p, "rlock")
    /\ UNCHANGED <<data, loaded, files, seqVars, mu, loads, crashed>>

\* hi.mu.RLock()
RLock(p) ==
    /\ ~crashed
    /\ pc[p] = "rlock"
    /\ mu.writer = 0
    /\ mu' = [mu EXCEPT !.readers = @ \cup {p}]
    /\ Goto(p, "check")
    /\ UNCHANGED <<data, loaded, files, seqVars, cur, ncalls, loads, crashed>>

\* if hi.loaded { hi.mu.RUnlock(); return nil }; hi.mu.RUnlock()
CheckLoaded(p) ==
    /\ ~crashed
    /\ pc[p] = "check"
    /\ mu' = [mu EXCEPT !.readers = @ \ {p}]
    /\ Goto(p, IF NeedsLoad(loaded) THEN "lock" ELSE BodyStart(cur[p].op))
    /\ UNCHANGED <<data, loaded, files, seqVars, cur, ncalls, loads, crashed>>

\* hi.mu.Lock()
Lock(p) ==
    /\ ~crashed
    /\ pc[p] = "lock"
    /\ mu.writer = 0 /\ mu.readers = {}
    /\ mu' = [mu EXCEPT !.writer = p]
    /\ Goto(p, "recheck")
    /\ UNCHANGED <<data, loaded, files, seqVars, cur, ncalls, loads, crashed>>

\* if hi.loaded { return nil }, with the deferred hi.mu.Unlock()
Recheck(p) ==
    /\ ~crashed
    /\ pc[p] = "recheck"
    /\ IF DoubleCheck(loaded)
       THEN Goto(p, "load") /\ UNCHANGED mu
       ELSE Goto(p, BodyStart(cur[p].op)) /\ mu' = [mu EXCEPT !.writer = 0]
    /\ UNCHANGED <<data, loaded, files, seqVars, cur, ncalls, loads, crashed>>

\* ensureDataDir and loadData; an error returns through the deferred Unlock.
Load(p) ==
    /\ ~crashed
    /\ pc[p] = "load"
    /\ \E dirOk \in BOOLEAN :
          IF dirOk
          THEN LET l == loadData(files, data, "ok", clock)
               IN  /\ data' = l.data
                   /\ files' = l.files
                   /\ loads' = loads + 1
                   /\ Goto(p, "setloaded")
                   /\ UNCHANGED <<mu, cur>>
          ELSE /\ mu' = [mu EXCEPT !.writer = 0]
               /\ Return(p, ErrMkdir, Null)
               /\ UNCHANGED <<data, files, loads>>
    /\ UNCHANGED <<loaded, seqVars, ncalls, crashed>>

\* hi.loaded = true; return nil, with the deferred hi.mu.Unlock()
SetLoaded(p) ==
    /\ ~crashed
    /\ pc[p] = "setloaded"
    /\ loaded' = TRUE
    /\ mu' = [mu EXCEPT !.writer = 0]
    /\ Goto(p, BodyStart(cur[p].op))
    /\ UNCHANGED <<data, files, seqVars, cur, ncalls, loads, crashed>>

\* The body of Query: the read of hi.data begins.
BeginRead(p) ==
    /\ ~crashed
    /\ pc[p] = "read"
    /\ Goto(p, "reading")
    /\ UNCHANGED <<data, loaded, files, seqVars, mu, cur, ncalls, loads, crashed>>

\* The body of Query: navigate returns.
EndRead(p) ==
    /\ ~crashed
    /\ pc[p] = "reading"
    /\ LET r == QueryMem(data, cur[p].path)
       IN  Return(p, r.err, r.val)
    /\ UNCHANGED <<data, loaded, files, seqVars, mu, ncalls, loads, crashed>>

\* The body of Set/Delete: the access to hi.data begins.
BeginMutate(p) ==
    /\ ~crashed
    /\ pc[p] = "mutate"
    /\ Goto(p, "mutating")
    /\ UNCHANGED <<data, loaded, files, seqVars, mu, cur, ncalls, loads, crashed>>

\* The body of Set/Delete up to the call of saveData.
EndMutate(p) ==
    /\ ~crashed
    /\ pc[p] = "mutating"
    /\ LET m == IF cur[p].op = "Set"
                THEN SetBody(data, cur[p].path, cur[p].value)
                ELSE DeleteBody(data, cur[p].path)
       IN  /\ data' = m.data
           /\ IF m.err # NoErr
              THEN Return(p, m.err, Null)
              ELSE Goto(p, "marshal") /\ UNCHANGED cur
    /\ UNCHANGED <<loaded, files, seqVars, mu, ncalls, loads, crashed>>

\* saveData: json.MarshalIndent(hi.data, "", "  ")
Marshal(p) ==
    /\ ~crashed
    /\ pc[p] = "marshal"
    /\ cur' = [cur EXCEPT ![p].buf = MarshalJSON(data)]
    /\ Goto(p, "writejson")
    /\ UNCHANGED <<data, loaded, files, seqVars, mu, ncalls, loads, crashed>>

\* saveData: os.WriteFile(singleFile, data, 0644)
WriteJson(p) ==
    /\ ~crashed
    /\ pc[p] = "writejson"
    /\ files' = [files EXCEPT !.json = WriteFile(@, cur[p].buf, "ok", clock)]
    /\ Goto(p, "cache")
    /\ UNCHANGED <<data, loaded, seqVars, mu, cur, ncalls, loads, crashed>>

\* saveData: hi.createBinaryCache(); return nil
WriteCache(p) ==
    /\ ~crashed
    /\ pc[p] = "cache"
    /\ files' = createBinaryCache(files, data, "ok", clock)
    /\ Return(p, NoErr, Null)
    /\ UNCHANGED <<data, loaded, seqVars, mu, ncalls, loads, crashed>>

\* Two goroutines access the map hi.data at once, one of them writing.
Race ==
    \E p, q \in Procs :
        p # q /\ pc[p] = "mutating" /\ pc[q] \in {"mutating", "reading"}

\* The Go runtime may detect the race (fatal error: concurrent map writes,
\* concurrent map read and map write) and stop the process.
FatalError ==
    /\ ~crashed
    /\ Race
    /\ crashed' = TRUE
    /\ UNCHANGED <<data, loaded, files, seqVars, mu, pc, cur, ncalls, loads>>

ConcNext ==
    \/ \E p \in Procs, c \in ConcCalls : Call(p, c)
    \/ \E p \in Procs : RLock(p)
    \/ \E p \in Procs : CheckLoaded(p)
    \/ \E p \in Procs : Lock(p)
    \/ \E p \in Procs : Recheck(p)
    \/ \E p \in Procs : Load(p)
    \/ \E p \in Procs : SetLoaded(p)
    \/ \E p \in Procs : BeginRead(p)
    \/ \E p \in Procs : EndRead(p)
    \/ \E p \in Procs : BeginMutate(p)
    \/ \E p \in Procs : EndMutate(p)
    \/ \E p \in Procs : Marshal(p)
    \/ \E p \in Procs : WriteJson(p)
    \/ \E p \in Procs : WriteCache(p)
    \/ FatalError

ConcSpec == ConcInit /\ [][ConcNext]_vars

(***************************************************************************)
(* NavSpec: navigate applied to every path of up to MaxSegs segments, on   *)
(* loaded documents with nested objects and arrays.                        *)
(***************************************************************************)
MaxSegs == 3

MaxIndex == 2

\* The segments a path is made of.
NavSegments ==
    {KeySeg(KeyA), KeySeg(KeyB), WildcardSeg}
        \cup {IndexSeg(i) : i \in (0 - MaxIndex)..MaxIndex}

\* The documents the store has loaded.
NavDocs ==
    { EmptyObj,
      NilMap,
      Obj((KeyA :> Arr(<<Obj((KeyA :> Scal(1))
                              @@ (KeyB :> Arr(<<Scal(1), Scal(2)>>))),
                         Scal(2),
                         Obj(KeyA :> Scal(3))>>))
          @@ (KeyB :> Scal(1))),
      Obj((KeyA :> Obj((KeyA :> Arr(<<>>)) @@ (KeyB :> Null)))
          @@ (KeyB :> Arr(<<Arr(<<Scal(1), Scal(2)>>), Arr(<<Scal(3)>>)>>))) }

NavInit ==
    /\ data \in NavDocs
    /\ loaded = TRUE
    /\ loadedFrom = "json"
    /\ files = [json |-> File(MarshalJSON(data), 1), gob |-> Absent,
                db |-> Absent]
    /\ clock = 1
    /\ nOps = 0
    /\ lastOp = "New"
    /\ lastPath = <<>>
    /\ lastValue = Null
    /\ lastErr = NoErr
    /\ lastRes = Null
    /\ lastKeys = <<>>
    /\ lastSegs = <<>>
    /\ pre = data
    /\ saveLog = <<>>
    /\ clean = TRUE
    /\ sync = "synced"
    /\ instance = 1
    /\ ConcIdle

\* hi.navigate(hi.data, segments), for the path of the last call with one
\* more segment.
Navigate(segment) ==
    /\ Len(lastSegs) < MaxSegs
    /\ LET r == navigate(data, Append(lastSegs, segment))
       IN  /\ lastSegs' = Append(lastSegs, segment)
           /\ lastOp' = "navigate"
           /\ lastErr' = r.err
           /\ lastRes' = r.val
    /\ UNCHANGED <<data, loaded, files, clock, loadedFrom, nOps, lastPath,
                   lastValue, lastKeys, pre, saveLog, clean, sync, instance>>
    /\ UNCHANGED concVars

NavNext == \E segment \in NavSegments : Navigate(segment)

NavSpec == NavInit /\ [][NavNext]_vars

(***************************************************************************)
(* ParseSpec: parseQuery applied to every string of up to MaxLen           *)
(* characters of PathChars.                                                *)
(***************************************************************************)
MaxLen == 5

\* The characters a path expression is made of.
PathChars == {"a", ".", "[", "]", "1", "*", "-", "+"}

ParseInit ==
    /\ NewState
    /\ ConcIdle
    /\ files = [json |-> Absent, gob |-> Absent, db |-> Absent]
    /\ clock = 1
    /\ nOps = 0

\* hi.parseQuery(query), for the path of the last call with one more
\* character.
ParseQuery(c) ==
    /\ Len(lastPath) < MaxLen
    /\ LET p == parseQuery(Append(lastPath, c))
       IN  /\ lastPath' = Append(lastPath, c)
           /\ lastOp' = "parseQuery"
           /\ lastErr' = p.err
           /\ lastSegs' = p.segs
    /\ UNCHANGED <<data, loaded, files, clock, loadedFrom, nOps, lastValue,
                   lastRes, lastKeys, pre, saveLog, clean, sync, instance>>
    /\ UNCHANGED concVars

ParseNext == \E c \in PathChars : ParseQuery(c)

ParseSpec == ParseInit /\ [][ParseNext]_vars

(***************************************************************************)
(* Properties.                                                             *)
(***************************************************************************)
\* The last step was a call of Set or Delete (in an action formula).
MutationStep == nOps' = nOps + 1 /\ lastOp' \in {"Set", "Delete"}

\* The last step ran the load.
LoadStep == ~loaded /\ loaded'

\* The errors that the specification classes as InvalidOperation.
InvalidOperation ==
    {ErrSetRoot, ErrDeleteRoot, ErrSetRootNonKey, ErrSetNonKey,
     ErrDeleteRootNonKey, ErrDeleteNonKey, ErrCreateNonKey}

\* C1 (Spec): round trip.  After a Set(p, v) that returned success, a
\* Query(p) returns v.
C1_RoundTrip ==
    (lastOp = "Set" /\ lastErr = NoErr)
        => QueryMem(data, lastPath) = [err |-> NoErr, val |-> lastValue]

\* A successful Set through an array index that overwrote an entry.
C1_Witness ==
    /\ lastOp = "Set"
    /\ lastErr = NoErr
    /\ lastPath = <<"a", ".", "[", "0", "]", ".", "b">>
    /\ QueryMem(pre, lastPath).err = NoErr
    /\ QueryMem(pre, lastPath).val # lastValue
    /\ QueryMem(data, lastPath).val = lastValue

\* The document a new instance on the data directory loads.
FreshData == loadData(files, EmptyObj, "ok", clock).data

C5_SavePolicy ==
    /\ (lastOp \in {"Set", "Delete"} /\ lastErr = NoErr)
          => files.json = File(MarshalJSON(data), files.json.mtime)
    /\ (Len(saveLog) = 2 /\ saveLog[2] \in {"gob failed", "gob not encodable"})
          => lastErr = NoErr

\* A Set that returned success although the write of the snapshot failed.
C5_Witness ==
    /\ lastOp = "Set"
    /\ lastErr = NoErr
    /\ saveLog = <<"json written", "gob failed">>
    /\ files.json.v = data

\* A path expression of zero segments.
ZeroSegments(q) == parseQuery(q).err = NoErr /\ parseQuery(q).segs = <<>>

\* C6 (Spec): Set and Delete reject a path of zero segments with an
\* InvalidOperation error and leave the document and the canonical file
\* unchanged.
C6_RejectZeroSegments ==
    [][(MutationStep /\ ZeroSegments(lastPath') /\ lastErr' # ErrMkdir)
          => /\ lastErr' \in InvalidOperation
             /\ data' = pre'
             /\ files'.json = files.json]_vars

\* C7 as stated (IOSpec): a decodable snapshot that is at least as new as
\* the canonical file, or without a canonical file, is what the load reads.
C7_AtLeastAsNew ==
    [][(LoadStep /\ files.gob.present /\ files.gob.valid
          /\ (~files.json.present \/ files.gob.mtime >= files.json.mtime))
          => loadedFrom' = "gob"]_vars

\* C7 amended (IOSpec): a decodable snapshot that is strictly newer than
\* the canonical file, or without a canonical file, is what the load reads:
\* the loaded document is the content of the snapshot.
C7_StrictlyNewer ==
    [][(LoadStep /\ files.gob.present /\ files.gob.valid
          /\ (~files.json.present \/ files.gob.mtime > files.json.mtime))
          => (loadedFrom' = "gob" /\ pre' = files.gob.v)]_vars

\* A load from a snapshot that is newer than a canonical file of another
\* content.
C7_Witness ==
    /\ loaded
    /\ loadedFrom = "gob"
    /\ lastOp = "Query"
    /\ files.json.present /\ files.json.valid
    /\ files.gob.mtime > files.json.mtime
    /\ files.json.v # data
    /\ files.gob.v = data

C9_WriteFailure ==
    [][/\ (MutationStep /\ saveLog' = <<"json failed">>)
            => /\ lastErr' = ErrWriteFile
               /\ sync' = "diverged"
               /\ IF lastOp' = "Set"
                  THEN QueryMem(data', lastPath')
                          = [err |-> NoErr, val |-> lastValue']
                  ELSE QueryMem(data', lastPath').err = ErrKeyNotFound
               /\ \E o \in WriteOutcomes :
                     files'.gob = IF loaded THEN files.gob
                                  ELSE loadData(files, data, o, clock).files.gob
       /\ (MutationStep /\ sync = "diverged" /\ lastErr' = NoErr)
            => /\ files'.json = File(MarshalJSON(data'), clock)
               /\ sync' = "resynced"]_vars

\* A save that succeeded after a failed write of the canonical file.
C9_Witness ==
    /\ sync = "resynced"
    /\ lastOp \in {"Set", "Delete"}
    /\ lastErr = NoErr
    /\ ~clean
    /\ files.json.v = MarshalJSON(data)

\* The terminal key of the path does not exist in document d: the parent
\* path resolves to an object that has no such key.
TerminalKeyMissing(d, q) ==
    LET p == parseQuery(q)
        n == Len(p.segs)
        parent == navigate(d, SubSeq(p.segs, 1, n - 1))
    IN  /\ p.err = NoErr
        /\ n >= 1
        /\ p.segs[n].Type = SegmentTypeKey
        /\ parent.err = NoErr
        /\ IsMap(parent.val)
        /\ p.segs[n].Key \notin DOMAIN parent.val.m

\* C10 (Spec): idempotent delete.  Delete on a path whose terminal key does
\* not exist returns success and leaves the document unchanged.
C10_IdempotentDelete ==
    (lastOp = "Delete" /\ lastErr # ErrMkdir /\ TerminalKeyMissing(pre, lastPath))
        => (lastErr = NoErr /\ data = pre)

\* A Delete of a missing key of an object inside an array.
C10_Witness ==
    /\ lastOp = "Delete"
    /\ lastErr = NoErr
    /\ lastPath = <<"a", ".", "[", "0", "]", ".", "b">>
    /\ TerminalKeyMissing(pre, lastPath)
    /\ data = pre
    /\ data # EmptyObj

\* A path of Key segments only.
AllKeys(segs) == \A i \in DOMAIN segs : segs[i].Type = SegmentTypeKey

\* The first k segments of a path.
Prefix(segs, k) == SubSeq(segs, 1, k)

\* C11 (Spec): auto-creation.  A Set on a path of two or more Key segments,
\* on a document (an object) in which an intermediate key is missing,
\* succeeds; each position that was missing holds an object whose only key
\* is the next key of the path, each position that existed keeps its other
\* entries, and the value is at the path.  After Set("a.b.c", 1) on the
\* empty document, Query("a.b") returns {"c": 1}.
C11_AutoCreation ==
    LET n == Len(lastSegs)
    IN  (/\ lastOp = "Set"
         /\ n >= 2
         /\ AllKeys(lastSegs)
         /\ pre.t = "obj"
         /\ navigate(pre, Prefix(lastSegs, n - 1)).err = ErrKeyNotFound)
        => /\ lastErr = NoErr
           /\ navigate(data, lastSegs) = [err |-> NoErr, val |-> lastValue]
           /\ \A k \in 0..(n - 1) :
                 LET old == navigate(pre, Prefix(lastSegs, k))
                     new == navigate(data, Prefix(lastSegs, k))
                     key == lastSegs[k + 1].Key
                 IN  /\ new.err = NoErr
                     /\ new.val.t = "obj"
                     /\ IF old.err # NoErr
                        THEN DOMAIN new.val.m = {key}
                        ELSE /\ DOMAIN new.val.m = DOMAIN old.val.m \cup {key}
                             /\ \A x \in DOMAIN old.val.m \ {key} :
                                   new.val.m[x] = old.val.m[x]
           /\ (pre = EmptyObj /\ lastPath = <<"a", ".", "b", ".", "c">>
                  /\ lastValue = Scal(1))
                 => QueryMem(data, <<"a", ".", "b">>)
                        = [err |-> NoErr, val |-> Obj(KeyC :> Scal(1))]

\* Set("a.b.c", 1) on the empty document has made a and a.b.
C11_Witness ==
    /\ lastOp = "Set"
    /\ lastErr = NoErr
    /\ pre = EmptyObj
    /\ lastPath = <<"a", ".", "b", ".", "c">>
    /\ lastValue = Scal(1)
    /\ data = Obj(KeyA :> Obj(KeyB :> Obj(KeyC :> Scal(1))))

\* The body of a Set/Delete of goroutine p is in progress: from its access
\* to hi.data to the write of the snapshot.
InMutation(p) == pc[p] \in {"mutating", "marshal", "writejson", "cache"}

\* Goroutine p is in the body of an operation.
InBody(p) ==
    pc[p] \in {"read", "reading", "mutate", "mutating", "marshal",
               "writejson", "cache"}

\* C3 (ConcSpec): the bodies of Set and Delete do not overlap, and no
\* Query/List reads the document while the body of a Set/Delete is in
\* progress.
C3_BodiesSerialized ==
    \A p, q \in Procs :
        p # q => /\ ~(InMutation(p) /\ InMutation(q))
                 /\ ~(pc[p] = "reading" /\ InMutation(q))

\* C4 (ConcSpec): the load runs at most once, it runs under the exclusive
\* lock, and no goroutine is in the body of an operation before the load
\* has completed.
C4_LoadOnce ==
    /\ loads <= 1
    /\ loaded => loads = 1
    /\ \A p \in Procs :
          /\ pc[p] \in {"recheck", "load", "setloaded"}
                => (mu.writer = p /\ mu.readers = {})
          /\ InBody(p) => loaded

\* Both goroutines found the store not loaded; one has loaded and is in
\* its body, the other holds the lock and is about to test loaded again.
C4_Witness ==
    /\ loaded
    /\ loads = 1
    /\ \E p, q \in Procs : pc[p] = "recheck" /\ InBody(q)

\* A path without a Wildcard segment.
NoWildcard(segs) == \A i \in DOMAIN segs : segs[i].Type # SegmentTypeWildcard

\* The segments of a path after the first k.
Rest(segs, k) == SubSeq(segs, k + 1, Len(segs))

\* The errors that the specification classes as NotFound and TypeMismatch.
NotFound == {ErrKeyNotFound, ErrOutOfBounds}

TypeMismatch ==
    {ErrKeyOnNonObject, ErrIndexOnNonArray, ErrWildcardOnNonArray,
     ErrListNonObject}

\* C12 (NavSpec): wildcard leniency.  When the first Wildcard of the path
\* is applied to an array, the query succeeds with an array that holds, in
\* the order of the elements, the results of the remaining segments on the
\* elements on which they succeed, and nothing else; with no such element
\* the result is the empty array.
C12_WildcardLeniency ==
    \A k \in 1..Len(lastSegs) :
        LET parent == navigate(data, Prefix(lastSegs, k - 1))
            rest == Rest(lastSegs, k)
        IN  (/\ lastOp = "navigate"
             /\ lastSegs[k].Type = SegmentTypeWildcard
             /\ NoWildcard(Prefix(lastSegs, k - 1))
             /\ parent.err = NoErr
             /\ parent.val.t = "arr")
            => LET items == parent.val.a
                   ok == {i \in DOMAIN items :
                             navigate(items[i], rest).err = NoErr}
                   nth(j) == CHOOSE i \in ok :
                                Cardinality({x \in ok : x < i}) = j - 1
               IN  /\ lastErr = NoErr
                   /\ lastRes.t = "arr"
                   /\ Len(lastRes.a) = Cardinality(ok)
                   /\ \A j \in 1..Cardinality(ok) :
                         lastRes.a[j] = navigate(items[nth(j)], rest).val

\* A wildcard query over three elements of which the second has no key a.
C12_Witness ==
    /\ lastOp = "navigate"
    /\ lastSegs = <<KeySeg(KeyA), WildcardSeg, KeySeg(KeyA)>>
    /\ Len(navigate(data, <<KeySeg(KeyA)>>).val.a) = 3
    /\ lastErr = NoErr
    /\ lastRes = Arr(<<Scal(1), Scal(3)>>)

\* C14 (NavSpec): bounds.  An Index(n) step on an array of length len fails
\* with NotFound when n < 0 or n >= len, whatever follows it, and as the
\* last step of the path it returns element n when 0 <= n < len.
C14_Bounds ==
    \A k \in 1..Len(lastSegs) :
        LET parent == navigate(data, Prefix(lastSegs, k - 1))
            n == lastSegs[k].Index
        IN  (/\ lastOp = "navigate"
             /\ lastSegs[k].Type = SegmentTypeIndex
             /\ NoWildcard(Prefix(lastSegs, k - 1))
             /\ parent.err = NoErr
             /\ parent.val.t = "arr")
            => IF n < 0 \/ n >= Len(parent.val.a)
               THEN lastErr = ErrOutOfBounds /\ lastErr \in NotFound
                       /\ lastRes = Null
               ELSE k = Len(lastSegs)
                       => (lastErr = NoErr /\ lastRes = parent.val.a[n + 1])

\* Index 2 on an array of two elements.
C14_Witness ==
    /\ lastOp = "navigate"
    /\ lastSegs = <<KeySeg(KeyB), IndexSeg(2)>>
    /\ navigate(data, <<KeySeg(KeyB)>>).val.t = "arr"
    /\ Len(navigate(data, <<KeySeg(KeyB)>>).val.a) = 2
    /\ lastErr = ErrOutOfBounds

C13_ListKeys ==
    lastOp = "List"
        => LET q == QueryMem(data, lastPath)
           IN  /\ (q.err = NoErr /\ IsMap(q.val))
                     => /\ lastErr = NoErr
                        /\ {lastKeys[i] : i \in DOMAIN lastKeys} = DOMAIN q.val.m
                        /\ Len(lastKeys) = Cardinality(DOMAIN q.val.m)
               /\ (q.err = NoErr /\ ~IsMap(q.val))
                     => (lastErr \in TypeMismatch /\ lastKeys = <<>>)
               /\ lastPath = <<>>
                     => (lastErr = NoErr
                           /\ {lastKeys[i] : i \in DOMAIN lastKeys}
                                  = DOMAIN data.m)

\* A List of an object of two keys below the root.
C13_Witness ==
    /\ lastOp = "List"
    /\ lastErr = NoErr
    /\ lastPath = <<"a">>
    /\ Len(lastKeys) = 2
    /\ lastKeys[1] # lastKeys[2]

\* A List of an array: a TypeMismatch.
C13_WitnessTypeMismatch ==
    /\ lastOp = "List"
    /\ QueryMem(data, lastPath).err = NoErr
    /\ QueryMem(data, lastPath).val.t = "arr"
    /\ lastErr = ErrListNonObject

\* The last call was a Set or Delete on a path whose last segment is an
\* Index or a Wildcard (in an action formula).
NonKeyTarget ==
    /\ MutationStep
    /\ lastErr' # ErrMkdir
    /\ Len(lastSegs') >= 1
    /\ lastSegs'[Len(lastSegs')].Type # SegmentTypeKey

\* C15 as stated (Spec): a Set or Delete on a path whose last segment is an
\* Index or a Wildcard returns an InvalidOperation error.
C15_FinalSegmentInvalidOperation ==
    [][NonKeyTarget => lastErr' \in InvalidOperation]_vars

\* C15 amended (Spec): a Set or Delete on a path whose last segment is an
\* Index or a Wildcard does not succeed and does not write the canonical
\* file.  With a single segment, or a parent path that resolves, the error
\* is InvalidOperation; otherwise the call fails on the parent path: Delete
\* with the error of navigating it, Set with the failure of creating it,
\* or with InvalidOperation once it is created.
C15_FinalSegmentRejected ==
    [][NonKeyTarget
          => LET n == Len(lastSegs')
                 parentSegs == Prefix(lastSegs', n - 1)
                 nav == navigate(pre', parentSegs)
                 cp == createPath(pre', parentSegs)
             IN  /\ lastErr' # NoErr
                 /\ files'.json = files.json
                 /\ (n = 1 \/ nav.err = NoErr)
                       => lastErr' \in InvalidOperation
                 /\ (n > 1 /\ nav.err # NoErr /\ lastOp' = "Delete")
                       => (lastErr' = nav.err
                             /\ lastErr' \in NotFound \cup TypeMismatch)
                 /\ (n > 1 /\ nav.err # NoErr /\ lastOp' = "Set")
                       => lastErr' = IF cp.err # NoErr THEN cp.err
                                     ELSE ErrSetNonKey]_vars

\* A Delete of an array element below a key that does not exist: the error
\* is that of the parent path.
C15_Witness ==
    /\ lastOp = "Delete"
    /\ lastPath = <<"a", "[", "0", "]">>
    /\ lastSegs = <<KeySeg(KeyA), IndexSeg(0)>>
    /\ KeyA \notin DOMAIN pre.m
    /\ lastErr = ErrKeyNotFound
    /\ data = pre

\* The files of the data directory that the glob *-inventory.json matches,
\* with the top-level key each is installed at.
LegacyFiles(fs) ==
    { [key |-> KeyDb, file |-> fs.db],
      [key |-> KeyHierarchical, file |-> fs.json] }

\* C16 (IOSpec): legacy import.  When the load runs the legacy import, the
\* load succeeds, and the loaded document holds, for each file
\* <type>-inventory.json that can be read and parsed, the content of the
\* file at the key <type>, and nothing for the other files.
C16_LegacyImport ==
    [][(LoadStep /\ loadedFrom' = "legacy")
          => /\ pre'.t = "obj"
             /\ \A l \in LegacyFiles(files) :
                   IF l.file.present /\ l.file.valid
                   THEN l.key \in DOMAIN pre'.m /\ pre'.m[l.key] = l.file.v
                   ELSE l.key \notin DOMAIN pre'.m
             /\ \A k \in DOMAIN pre'.m :
                   \E l \in LegacyFiles(files) : l.key = k]_vars

\* A legacy import that skipped db-inventory.json, which does not parse,
\* and installed the other file that the glob matches.
C16_Witness ==
    /\ lastOp = "Query"
    /\ loadedFrom = "legacy"
    /\ files.db.present /\ ~files.db.valid
    /\ files.json.present /\ files.json.valid
    /\ data = Obj(KeyHierarchical :> files.json.v)

\* A legacy import that installed db-inventory.json although another file
\* that the glob matches does not parse.
C16_WitnessDb ==
    /\ lastOp = "Query"
    /\ loadedFrom = "legacy"
    /\ files.json.present /\ ~files.json.valid
    /\ files.db.present /\ files.db.valid
    /\ data = Obj(KeyDb :> files.db.v)

\* C17 (Spec): a Query with the empty path, or with a path that parses to
\* zero segments, returns the whole document.
C17_EmptyPathWholeDocument ==
    (lastOp = "Query" /\ lastErr # ErrMkdir
        /\ (lastPath = <<>> \/ ZeroSegments(lastPath)))
        => (lastErr = NoErr /\ lastRes = data /\ lastRes = pre)

\* A Query("") that returned a document with a nested object, after a Set.
C17_Witness ==
    /\ lastOp = "Query"
    /\ lastPath = <<>>
    /\ lastErr = NoErr
    /\ nOps = 2
    /\ lastRes = data
    /\ \E k \in DOMAIN data.m : data.m[k].t = "obj"

\* The path grammar of the specification: the result of a bracketed expr.
GrammarExpr(e) ==
    LET ds == IF e # <<>> /\ e[1] = "-" THEN Tail(e) ELSE e
        integer == ds # <<>> /\ \A i \in DOMAIN ds : ds[i] \in Digits
    IN  IF e = <<"*">> THEN [err |-> NoErr, segs |-> <<WildcardSeg>>]
        ELSE IF integer
        THEN [err |-> NoErr,
              segs |-> <<IndexSeg(IF e[1] = "-" THEN 0 - DecimalVal(ds)
                                  ELSE DecimalVal(ds))>>]
        ELSE [err |-> ErrInvalidIndex, segs |-> <<>>]

\* The path grammar of the specification: the segments of one token, which
\* is [expr], name[expr] or a key.
GrammarToken(tok) ==
    LET n == Len(tok)
        opens == {i \in 2..(n - 1) : tok[i] = "["}
    IN  IF n >= 2 /\ tok[1] = "[" /\ tok[n] = "]"
        THEN GrammarExpr(SubSeq(tok, 2, n - 1))
        ELSE IF tok[n] = "]" /\ opens # {}
        THEN LET i == CHOOSE j \in opens : \A l \in opens : j <= l
                 x == GrammarExpr(SubSeq(tok, i + 1, n - 1))
             IN  IF x.err # NoErr THEN x
                 ELSE [err |-> NoErr,
                       segs |-> <<KeySeg(SubSeq(tok, 1, i - 1))>> \o x.segs]
        ELSE [err |-> NoErr, segs |-> <<KeySeg(tok)>>]

\* The path grammar of the specification: the tokens between the dots,
\* without the empty ones, one after the other.
RECURSIVE GrammarTokens(_)
GrammarTokens(toks) ==
    IF toks = <<>> THEN [err |-> NoErr, segs |-> <<>>]
    ELSE IF Head(toks) = <<>> THEN GrammarTokens(Tail(toks))
    ELSE LET t == GrammarToken(Head(toks))
             r == GrammarTokens(Tail(toks))
         IN  IF t.err # NoErr THEN t
             ELSE IF r.err # NoErr THEN r
             ELSE [err |-> NoErr, segs |-> t.segs \o r.segs]

GrammarParse(query) == GrammarTokens(SplitDots(query))

\* C19 (ParseSpec): the parser gives, on every string, the segments or the
\* ParseError that the path grammar of the specification gives.
C19_ParserMatchesGrammar ==
    lastOp = "parseQuery"
        => [err |-> lastErr, segs |-> lastSegs] = GrammarParse(lastPath)

\* A token has a bracket pair with nothing in it.
HasEmptyBrackets(query) ==
    \E i \in 1..(Len(query) - 1) : query[i] = "[" /\ query[i + 1] = "]"

\* The parser and the grammar differ only on a path with an empty bracket
\* pair or with a plus sign.
C19_DiffersOnlyOnEmptyOrPlus ==
    (lastOp = "parseQuery" /\ ~HasEmptyBrackets(lastPath)
        /\ \A i \in DOMAIN lastPath : lastPath[i] # "+")
        => [err |-> lastErr, segs |-> lastSegs] = GrammarParse(lastPath)

\* C20 (Spec): Delete never auto-creates.  A Delete on a path of two or more
\* segments whose parent path does not resolve returns the error of the
\* navigation, and leaves the document and the canonical file as they
\* were.
C20_DeleteNoAutoCreate ==
    [][(/\ MutationStep
        /\ lastOp' = "Delete"
        /\ lastErr' # ErrMkdir
        /\ Len(lastSegs') >= 2
        /\ navigate(pre', Prefix(lastSegs', Len(lastSegs') - 1)).err # NoErr)
          => /\ lastErr' \notin {NoErr, Panic}
             /\ lastErr'
                  = navigate(pre', Prefix(lastSegs', Len(lastSegs') - 1)).err
             /\ data' = pre'
             /\ loaded => data' = data
             /\ files'.json = files.json]_vars

\* A Delete of a.b.c on a document that has a but not a.b.
C20_Witness ==
    /\ lastOp = "Delete"
    /\ lastPath = <<"a", ".", "b", ".", "c">>
    /\ navigate(pre, <<KeySeg(KeyA)>>).err = NoErr
    /\ navigate(pre, <<KeySeg(KeyA), KeySeg(KeyB)>>).err = ErrKeyNotFound
    /\ lastErr = ErrKeyNotFound
    /\ data = pre

\* The errors that the specification classes as Conflict.
Conflict == {ErrPathConflict}

\* The parent path of segs does not resolve in document d because a node
\* on it, reached through keys, is present and is not an object.
ParentPathBlocked(d, segs) ==
    /\ Len(segs) >= 2
    /\ navigate(d, Prefix(segs, Len(segs) - 1)).err # NoErr
    /\ \E k \in 1..(Len(segs) - 1) :
          /\ AllKeys(Prefix(segs, k))
          /\ navigate(d, Prefix(segs, k)).err = NoErr
          /\ navigate(d, Prefix(segs, k)).val.t # "obj"

\* C21 (Spec): a Set whose parent path does not resolve, because a node on
\* it is present and is not an object, returns a Conflict error and
\* leaves the document and the canonical file as they were.
C21_ConflictNoOverwrite ==
    [][(MutationStep /\ lastOp' = "Set" /\ lastErr' # ErrMkdir
          /\ ParentPathBlocked(pre', lastSegs'))
          => /\ lastErr' \in Conflict
             /\ data' = pre'
             /\ files'.json = files.json]_vars

\* A Set of a.b.c on a document in which a is an array.
C21_Witness ==
    /\ lastOp = "Set"
    /\ lastPath = <<"a", ".", "b", ".", "c">>
    /\ navigate(pre, <<KeySeg(KeyA)>>).err = NoErr
    /\ navigate(pre, <<KeySeg(KeyA)>>).val.t = "arr"
    /\ lastErr = ErrPathConflict
    /\ data = pre

\* C22 (Spec): implicit path creation.  On a document whose root is an
\* object, a Set whose parent path does not resolve and holds an Index or a
\* Wildcard returns an error; and whatever a Set returns, a position of the
\* parent path that did not resolve before the call and resolves after it
\* is reached by Key segments only and holds an object, empty or with the
\* next key of the path as its only key, never an array.
C22_CreatesOnlyObjects ==
    [][(MutationStep /\ lastOp' = "Set" /\ lastErr' # ErrMkdir
          /\ pre'.t = "obj" /\ Len(lastSegs') >= 2)
          => LET n == Len(lastSegs')
                 parentSegs == Prefix(lastSegs', n - 1)
             IN  /\ (navigate(pre', parentSegs).err # NoErr
                        /\ ~AllKeys(parentSegs))
                       => (lastErr' \notin {NoErr, Panic}
                             /\ lastErr' \in InvalidOperation \cup Conflict)
                 /\ \A k \in 1..(n - 1) :
                       LET old == navigate(pre', Prefix(lastSegs', k))
                           new == navigate(data', Prefix(lastSegs', k))
                       IN  (NoWildcard(Prefix(lastSegs', k))
                              /\ old.err # NoErr /\ new.err = NoErr)
                           => /\ AllKeys(Prefix(lastSegs', k))
                              /\ new.val.t = "obj"
                              /\ DOMAIN new.val.m \subseteq
                                     {lastSegs'[k + 1].Key}]_vars

\* A Set of a.[0].b on the empty document: a was created as an empty
\* object, the index was refused.
C22_Witness ==
    /\ lastOp = "Set"
    /\ lastPath = <<"a", ".", "[", "0", "]", ".", "b">>
    /\ pre = EmptyObj
    /\ lastErr = ErrCreateNonKey
    /\ data = Obj(KeyA :> EmptyObj)

\* C23 (IOSpec): the load performs the legacy import only when the
\* canonical file and the snapshot are both absent.
C23_LegacyOnlyWhenBothAbsent ==
    [][(LoadStep /\ loadedFrom' = "legacy")
          => (~files.json.present /\ ~files.gob.present)]_vars

\* The legacy import ran although a canonical file exists, and installed a
\* legacy file.
C23_LegacyOverCanonical ==
    /\ lastOp = "Query"
    /\ loadedFrom = "legacy"
    /\ files.json.present /\ ~files.json.valid
    /\ KeyDb \in DOMAIN data.m

\* C24 (Spec): the root of the document is an object in every state: when
\* the store is constructed, after the load and after every Set and
\* Delete.
C24_RootIsObject == data.t = "obj"

\* A Set on a store whose load made the root a nil map.
C24_NilRootSet ==
    /\ loaded
    /\ pre = NilMap
    /\ lastOp = "Set"
    /\ lastErr = Panic

\* C25 (Spec): failure atomicity of Set.  A Set that returns an error other
\* than the failure of the write of the canonical file leaves the document
\* as it was when the call started.
C25_SetFailureAtomic ==
    [][(MutationStep /\ lastOp' = "Set"
          /\ lastErr' \notin {NoErr, ErrWriteFile})
          => data' = pre']_vars

\* A failed Set has left an object that it created on the parent path.
C25_LeftoverObject ==
    /\ lastOp = "Set"
    /\ lastErr = ErrCreateNonKey
    /\ KeyA \notin DOMAIN pre.m
    /\ KeyA \in DOMAIN data.m
    /\ data.m[KeyA] = EmptyObj

\* Each goroutine has made one call, a Set, the two on different keys, and
\* both calls have returned success.
BothSetsReturned ==
    /\ ~crashed
    /\ \A p \in Procs :
          /\ pc[p] = "idle"
          /\ ncalls[p] = 1
          /\ cur[p].op = "Set"
          /\ cur[p].err = NoErr
    /\ cur[1].path # cur[2].path

\* C26 (ConcSpec): no lost update on disk.  When two concurrent Set calls on
\* different keys have both returned success, the canonical file holds both
\* values and is the serialization of the document.
C26_NoLostUpdate ==
    BothSetsReturned
        => /\ files.json = File(MarshalJSON(data), files.json.mtime)
           /\ \A p \in Procs :
                 QueryMem(files.json.v, cur[p].path)
                    = [err |-> NoErr, val |-> cur[p].value]

\* Both Set calls returned success, the document holds both values, the
\* canonical file holds one of them.
C26_LostUpdate ==
    /\ BothSetsReturned
    /\ \A p \in Procs :
          QueryMem(data, cur[p].path) = [err |-> NoErr, val |-> cur[p].value]
    /\ \E p \in Procs :
          QueryMem(files.json.v, cur[p].path).err = ErrKeyNotFound

\* The Key and Index segments of the paths whose Query result is compared
\* before and after a mutation.
LocalitySegments ==
    {KeySeg(KeyA), KeySeg(KeyB), KeySeg(KeyC), IndexSeg(0), IndexSeg(1)}

\* The paths of one to three such segments.
LocalityPaths ==
    UNION {[1..n -> LocalitySegments] : n \in 1..3}

\* q is a prefix of p, equals p, or extends p.
Related(p, q) ==
    LET k == IF Len(p) < Len(q) THEN Len(p) ELSE Len(q)
    IN  Prefix(p, k) = Prefix(q, k)

C27_ErrorChanged ==
    /\ lastOp = "Set"
    /\ lastErr = NoErr
    /\ lastSegs = <<KeySeg(KeyA), KeySeg(KeyB)>>
    /\ navigate(pre, <<KeySeg(KeyA), IndexSeg(0)>>).err = ErrKeyNotFound
    /\ navigate(data, <<KeySeg(KeyA), IndexSeg(0)>>).err
          \notin {NoErr, ErrKeyNotFound}

C27_WitnessDelete ==
    /\ lastOp = "Delete"
    /\ lastErr = NoErr
    /\ lastSegs = <<KeySeg(KeyA), KeySeg(KeyB)>>
    /\ data # pre
    /\ navigate(data, <<KeySeg(KeyA), KeySeg(KeyA)>>)
          = [err |-> NoErr, val |-> Scal(1)]

(***************************************************************************)
(* BackupSpec: Backup and Restore among the operations, on a reliable      *)
(* disk.  The data directory has one more entry, backup: the files         *)
(* backup-<seconds>.json by their time stamp.                              *)
(***************************************************************************)
ErrReadFile == "os.ReadFile failed"

\* hi.SaveToFile(backup-<name>.json, "json"): the document in memory is
\* serialized and written; [err, files].
SaveToFile(fs, d, name, outcome, now) ==
    LET old == IF name \in DOMAIN fs.backup THEN fs.backup[name] ELSE Absent
        new == WriteFile(old, MarshalJSON(d), outcome, now)
    IN  [err |-> IF outcome = "ok" THEN NoErr ELSE ErrWriteFile,
         files |-> IF new.present
                   THEN [fs EXCEPT !.backup = (name :> new) @@ @]
                   ELSE fs]

\* hi.LoadFromFile(backup-<name>.json, "json"): the file is read and decoded
\* into the map hi.data; [err, data].
LoadFromFile(fs, d, name) ==
    IF name \notin DOMAIN fs.backup
    THEN [err |-> ErrReadFile, data |-> d]
    ELSE UnmarshalInto(d, fs.backup[name])

\* hi.Backup(): the file is named after the current second; the call
\* returns that name.  It does not go through ensureDataLoaded.
Backup(env) ==
    /\ lastErr # Panic
    /\ \E outcome \in env.w :
          LET s == SaveToFile(files, data, clock, outcome, clock)
          IN  /\ files' = s.files
              /\ lastErr' = s.err
              /\ lastRes' = IF s.err = NoErr THEN Scal(clock) ELSE Null
    /\ lastOp' = "Backup"
    /\ lastPath' = <<>>
    /\ lastValue' = Null
    /\ lastKeys' = <<>>
    /\ lastSegs' = <<>>
    /\ pre' = data
    /\ saveLog' = <<>>
    /\ UNCHANGED <<data, loaded, loadedFrom, clock, nOps, clean, sync,
                   instance>>
    /\ UNCHANGED concVars

\* hi.Restore(backupFile): neither ensureDataLoaded nor saveData is called.
Restore(name) ==
    /\ lastErr # Panic
    /\ LET r == LoadFromFile(files, data, name)
       IN  /\ data' = r.data
           /\ lastErr' = r.err
    /\ lastOp' = "Restore"
    /\ lastPath' = <<>>
    /\ lastValue' = Scal(name)
    /\ lastRes' = Null
    /\ lastKeys' = <<>>
    /\ lastSegs' = <<>>
    /\ pre' = data
    /\ saveLog' = <<>>
    /\ UNCHANGED <<loaded, loadedFrom, files, clock, nOps, clean, sync,
                   instance>>
    /\ UNCHANGED concVars

\* The data directories the store is constructed on: no backup yet.
BackupInitDirs ==
    { [json |-> Absent, gob |-> Absent, db |-> Absent, backup |-> << >>],
      [json |-> File(Obj(KeyA :> Scal(1)), 1), gob |-> Absent,
       db |-> Absent, backup |-> << >>] }

BackupPaths == { <<"a">>, <<"b">> }

BackupInit ==
    /\ NewState
    /\ ConcIdle
    /\ files \in BackupInitDirs
    /\ clock = 1
    /\ nOps = 0

BackupNext ==
    \/ Query(<<"a">>, Reliable)
    \/ \E q \in BackupPaths : Set(q, Scal(2), Reliable)
    \/ \E q \in BackupPaths : Delete(q, Reliable)
    \/ Backup(Reliable)
    \/ \E name \in 1..MaxClock : Restore(name)

BackupSpec == BackupInit /\ [][BackupNext]_vars

\* C28 (BackupSpec): Backup/Restore round trip.  After a successful
\* Restore(f) the document in memory is the document the backup file f
\* recorded; top-level keys added after the Backup are gone.
C28_RestoreRoundTrip ==
    (lastOp = "Restore" /\ lastErr = NoErr)
        => MarshalJSON(data) = files.backup[lastValue.v].v

\* Restore has succeeded and the document has a key the backup file does
\* not have.
C28_KeyKeptAfterRestore ==
    /\ lastOp = "Restore"
    /\ lastErr = NoErr
    /\ files.backup[lastValue.v].v = Obj(KeyA :> Scal(1))
    /\ data = Obj((KeyA :> Scal(1)) @@ (KeyB :> Scal(2)))

\* C29 (BackupSpec): a successful Backup on a freshly constructed instance,
\* before any call has triggered the lazy load, writes a file that holds
\* the document stored in the data directory.
C29_BackupReflectsPersisted ==
    [][(lastOp = "New" /\ lastOp' = "Backup" /\ lastErr' = NoErr)
          => files'.backup[clock].v
                = MarshalJSON(loadData(files, EmptyObj, "ok", clock).data)]_vars

\* The canonical file holds {a: 1}; the Backup of the fresh instance wrote
\* the empty document.
C29_EmptyBackup ==
    /\ lastOp = "Backup"
    /\ lastErr = NoErr
    /\ ~loaded
    /\ files.json = File(Obj(KeyA :> Scal(1)), 1)
    /\ files.backup[lastRes.v].v = EmptyObj

\* C30 (IOSpec): the load sequence never treats the canonical file as a
\* legacy per-type file.  No load gives the document a top-level key
\* hierarchical that holds the canonical file's own content.
C30_CanonicalNotLegacy ==
    [][(~loaded /\ loaded')
          => ~(/\ files.json.present
               /\ files.json.valid
               /\ KeyHierarchical \in DOMAIN pre'.m
               /\ pre'.m[KeyHierarchical] = files.json.v)]_vars

\* The canonical file held the array [1]; the legacy import has stored it
\* under the key hierarchical.
C30_CanonicalImported ==
    /\ loaded
    /\ loadedFrom = "legacy"
    /\ KeyHierarchical \in DOMAIN data.m
    /\ data.m[KeyHierarchical] = Arr(<<Scal(1)>>)

====
